---- MODULE Spec2Model ----
(***************************************************************************)
(* Firebase Storage request layer: the resumable-upload request builders   *)
(* and response handlers, the status-code translators, the download        *)
(* handler and the two makeRequest executors.                              *)
(*                                                                         *)
(* Three specifications share the module:                                  *)
(*   Spec          the resumable upload exchange (builder + handlers)      *)
(*   SpecHandlers  the response translators applied to drawn responses     *)
(*   SpecRetry     the retrying makeRequest loop                           *)
(***************************************************************************)
EXTENDS Integers, Sequences, FiniteSets, TLC

VARIABLES
  blobSize,     \* blob.size() of the blob being uploaded
  chunkSize,    \* the chunkSize argument the caller passes to the builder
  location,     \* the Location the upload is attributed to
  status,       \* the caller's ResumableUploadStatus (NoStatus = not passed)
  cont,         \* what buildContinueResumableUploadRequest returned (NoCont = nothing built)
  res,          \* the Response last handed to a handler
  outcome,      \* what the last builder / handler call returned or threw
  origin,       \* which call produced `status`: "none", "stored", "chunk" or "query"
  loopExchanges, \* SpecLoop: chunk exchanges the upload loop has completed
  hres,         \* SpecHandlers: the Response handed to the translators
  hloc,         \* SpecHandlers: the Location handed to the translators
  hfun,         \* SpecHandlers: which handler ran last
  hout,         \* SpecHandlers: what it returned or threw
  mr,           \* SpecRetry: the frame of one makeRequest(input, retryLimit, init) call
  sr            \* SpecRetry: the frame of one single-attempt makeRequest(input, init) call

uploadVars  ==
  <<blobSize, chunkSize, location, status, cont, res, outcome, origin, loopExchanges>>
handlerVars == <<hres, hloc, hfun, hout>>
retryVars   == <<mr, sr>>
vars        == <<uploadVars, handlerVars, retryVars>>

----------------------------------------------------------------------------
(* Bounds and program constants *)

RESUMABLE_UPLOAD_CHUNK_SIZE == 256 * 1024

\* Sizes are drawn in steps of half an alignment unit, so that aligned and
\* unaligned chunks both occur.
Granule == RESUMABLE_UPLOAD_CHUNK_SIZE \div 2

MaxBlobUnits  == 3
MaxChunkUnits == 2
ScenarioBlobSize == 500000

BlobSizes  == {k * Granule : k \in 0..MaxBlobUnits} \cup {ScenarioBlobSize}
ChunkSizes == {k * Granule : k \in -1..MaxChunkUnits}
\* numbers a server may put in X-Goog-Upload-Size-Received
ReceivedSizes == {k * Granule : k \in -1..(MaxBlobUnits + 1)}

null == "null"

Min(a, b) == IF a < b THEN a ELSE b

----------------------------------------------------------------------------
(* Errors (error.ts): a code plus the bucket or path it is attributed to *)

unknown              == [code |-> "unknown"]
unauthenticated      == [code |-> "unauthenticated"]
unauthorizedApp      == [code |-> "unauthorized-app"]
quotaExceeded(b)     == [code |-> "quota-exceeded", bucket |-> b]
unauthorized(p)      == [code |-> "unauthorized", path |-> p]
objectNotFound(p)    == [code |-> "object-not-found", path |-> p]
serverFileWrongSize  == [code |-> "server-file-wrong-size"]
cannotSliceBlob      == [code |-> "cannot-slice-blob"]
retryLimitExceeded   == [code |-> "retry-limit-exceeded"]

\* The closed taxonomy of domain error kinds
ErrorCodes ==
  {"unknown", "unauthenticated", "unauthorized-app", "quota-exceeded",
   "unauthorized", "object-not-found", "server-file-wrong-size",
   "cannot-slice-blob", "retry-limit-exceeded", "range-not-satisfiable"}

\* A call either returns a value or throws
Return(v) == [threw |-> FALSE, value |-> v]
Throw(e)  == [threw |-> TRUE, error |-> e]
NoOutcome == [threw |-> FALSE, value |-> null]

----------------------------------------------------------------------------
(* Responses *)

\* A header value as headers.get returns it: absent (null), the empty
\* string, a text that is no number, or the decimal text of a number.
AbsentHeader    == [kind |-> "absent"]
EmptyHeader     == [kind |-> "empty"]
TextHeader      == [kind |-> "text"]
NumberHeader(n) == [kind |-> "number", n |-> n]

UploadStatusHeaders == {null, "active", "final", "cancelled"}
SizeHeaders ==
  {AbsentHeader, EmptyHeader, TextHeader} \cup {NumberHeader(n) : n \in ReceivedSizes}
Bodies == {"metadata-json", "garbage"}

\* res.ok
Ok(r) == r.status >= 200 /\ r.status <= 299

\* Number(sizeString) for a non-empty string
NaN == [nan |-> TRUE]
Number(h) == IF h.kind = "number" THEN [nan |-> FALSE, n |-> h.n] ELSE NaN
isNaN(x) == x.nan

\* fromResourceString (metadata.ts): the parsed Metadata, or null
fromResourceString(body) == IF body = "metadata-json" THEN "metadata" ELSE null

----------------------------------------------------------------------------
(* Status translators *)

\* a bug the translator could have: the 404 refinement applied to every caller
sharedErrorHandlerWith404(r, loc) ==
  IF Ok(r) THEN Return(r)
  ELSE CASE r.status = 401 ->
              IF r.appCheckInvalid THEN Throw(unauthorizedApp)
              ELSE Throw(unauthenticated)
         [] r.status = 402 -> Throw(quotaExceeded(loc.bucket))
         [] r.status = 403 -> Throw(unauthorized(loc.path))
         [] r.status = 404 -> Throw(objectNotFound(loc.path))
         [] OTHER -> Throw(unknown)

sharedErrorHandler(r, loc) ==
  IF Ok(r) THEN Return(r)
  ELSE CASE r.status = 401 ->
              IF r.appCheckInvalid THEN Throw(unauthorizedApp)
              ELSE Throw(unauthenticated)
         [] r.status = 402 -> Throw(quotaExceeded(loc.bucket))
         [] r.status = 403 -> Throw(unauthorized(loc.path))
         [] OTHER -> Throw(unknown)

\* a bug the object-scoped translator could have: no 404 refinement
objectErrorHandlerNoRefinement(r, loc) == sharedErrorHandler(r, loc)

objectErrorHandler(r, loc) ==
  LET first == sharedErrorHandler(r, loc)
  IN  IF first.threw
      THEN IF r.status = 404 THEN Throw(objectNotFound(loc.path)) ELSE first
      ELSE first

\* a bug metadataHandler could have: the parsed metadata is not checked
metadataHandlerUnchecked(r) ==
  IF ~Ok(r) THEN Throw(unknown) ELSE Return(fromResourceString(r.body))

metadataHandler(r) ==
  IF ~Ok(r) THEN Throw(unknown)
  ELSE LET metadata == fromResourceString(r.body)
       IN  IF metadata = null THEN Throw(unknown) ELSE Return(metadata)

----------------------------------------------------------------------------
(* Resumable upload *)

ResumableUploadStatus(current, total, finalized, metadata) ==
  [current |-> current, total |-> total, finalized |-> finalized, metadata |-> metadata]

NoStatus == [none |-> TRUE]
NoCont   == [none |-> TRUE]

checkResumeHeader_(r, allowed) ==
  LET st == r.uploadStatus
  IN  IF st # null /\ st # "" /\ st \in allowed THEN Return(st) ELSE Throw(unknown)

\* getResumableUploadStatusHandler(res, blob)
getResumableUploadStatusHandler(r, size_) ==
  LET st == checkResumeHeader_(r, {"active", "final"})
      sizeString == r.sizeReceived
  IN  IF st.threw THEN st
      ELSE IF sizeString.kind \in {"absent", "empty"} THEN Throw(unknown)
      ELSE LET size == Number(sizeString)
           IN  IF isNaN(size) THEN Throw(unknown)
               ELSE Return(ResumableUploadStatus(size.n, size_, st.value = "final", null))

\* a bug the chunk plan could have: the chunk size is not applied
bytesToUploadUnclamped(bytesLeft, chunk) == bytesLeft

\* bytesToUpload of lines 478-481
bytesToUploadOf(bytesLeft, chunk) ==
  IF chunk > 0 THEN Min(bytesLeft, chunk) ELSE bytesLeft

\* a bug the chunk plan could have: a last chunk is not told apart
uploadCommandWithoutLast(bytesLeft, bytesToUpload) ==
  IF bytesToUpload = 0 THEN "finalize" ELSE "upload"

\* uploadCommand of lines 484-491
uploadCommandOf(bytesLeft, bytesToUpload) ==
  IF bytesToUpload = 0 THEN "finalize"
  ELSE IF bytesLeft = bytesToUpload THEN "upload, finalize"
  ELSE "upload"

\* a bug the builder could have: the status's total is not compared with the blob
buildContinueResumableUploadRequestUnchecked(loc, size_, chunk, st, sliced) ==
  LET current   == IF st = NoStatus THEN 0 ELSE st.current
      total     == IF st = NoStatus THEN size_ ELSE st.total
      bytesLeft == total - current
      bytesToUpload == bytesToUploadOf(bytesLeft, chunk)
  IN  IF ~sliced THEN Throw(cannotSliceBlob)
      ELSE Return([uploadCommand |-> uploadCommandOf(bytesLeft, bytesToUpload),
                   uploadOffset  |-> current,
                   startByte     |-> current,
                   endByte       |-> current + bytesToUpload,
                   bytesToUpload |-> bytesToUpload,
                   reqHasBody    |-> FALSE,
                   status_       |-> [current |-> current, total |-> total],
                   location      |-> loc])

\* buildContinueResumableUploadRequest(location, service, url, blob, chunkSize,
\*   mappings, status): `sliced` is whether blob.slice returned a blob.
\* Returns the request headers and what the handler closure captures.
\* The slice [startByte, endByte) is computed and checked (lines 496-499);
\* the Request of line 528 is built from the method and the headers alone.
buildContinueResumableUploadRequest(loc, size_, chunk, st, sliced) ==
  LET current   == IF st = NoStatus THEN 0 ELSE st.current
      total     == IF st = NoStatus THEN size_ ELSE st.total
      bytesLeft == total - current
      bytesToUpload == bytesToUploadOf(bytesLeft, chunk)
      startByte == current
      endByte   == startByte + bytesToUpload
      uploadCommand == uploadCommandOf(bytesLeft, bytesToUpload)
  IN  IF size_ # total THEN Throw(serverFileWrongSize)
      ELSE IF ~sliced THEN Throw(cannotSliceBlob)
      ELSE Return([uploadCommand |-> uploadCommand,
                   uploadOffset  |-> current,
                   startByte     |-> startByte,
                   endByte       |-> endByte,
                   bytesToUpload |-> bytesToUpload,
                   reqHasBody    |-> FALSE,
                   status_       |-> [current |-> current, total |-> total],
                   location      |-> loc])

\* a bug the handler could have: the offset of the chunk is forgotten
newCurrentWithoutOffset(c) == c.bytesToUpload

\* newCurrent of line 510, from what the closure captured
newCurrentOf(c) == c.status_.current + c.bytesToUpload

\* the handler closure returned by buildContinueResumableUploadRequest
handler(c, r, size_) ==
  LET checked == sharedErrorHandler(r, c.location)
      uploadStatus == checkResumeHeader_(r, {"active", "final"})
      newCurrent == newCurrentOf(c)
  IN  IF checked.threw THEN checked
      ELSE IF uploadStatus.threw THEN uploadStatus
      ELSE IF uploadStatus.value = "final"
           THEN LET metadata == metadataHandler(r)
                IN  IF metadata.threw THEN metadata
                    ELSE Return(ResumableUploadStatus(newCurrent, size_, TRUE, metadata.value))
           ELSE Return(ResumableUploadStatus(newCurrent, size_, FALSE, null))

----------------------------------------------------------------------------
(* The upload exchange: the caller builds a chunk request from its status,  *)
(* hands the response to the returned handler, and may query the session.  *)

UploadLocation == [bucket |-> "bucket", path |-> "dir/object"]

UploadHttpStatuses == {200, 401, 402, 403, 404, 503}

ChunkResponses ==
  {r \in [status : UploadHttpStatuses, appCheckInvalid : BOOLEAN,
          uploadStatus : UploadStatusHeaders,
          sizeReceived : {AbsentHeader},
          body : Bodies] :
     r.appCheckInvalid => r.status = 401}

QueryResponses ==
  [status : {200}, appCheckInvalid : {FALSE},
   uploadStatus : UploadStatusHeaders,
   sizeReceived : SizeHeaders,
   body : {"garbage"}]

NoResponse == [none |-> TRUE]
Call(op, result) == [op |-> op, result |-> result]

\* a chunk request has been built and its response has not been handled yet
InFlight == outcome.op = "build" /\ ~outcome.result.threw

InitUpload ==
  /\ blobSize \in BlobSizes
  /\ chunkSize \in ChunkSizes
  /\ location = UploadLocation
  /\ status = NoStatus
  /\ cont = NoCont
  /\ res = NoResponse
  /\ outcome = Call("none", NoOutcome)
  /\ origin = "none"
  /\ loopExchanges = 0

\* statuses a caller may have kept from earlier, of this blob or of another
StoredStatuses ==
  {ResumableUploadStatus(c, t, FALSE, null) : c \in {0, Granule}, t \in BlobSizes}

\* instead of starting from the beginning, the caller passes a status it kept
PassStoredStatus ==
  /\ outcome.op = "none"
  /\ status = NoStatus
  /\ status' \in StoredStatuses
  /\ origin' = "stored"
  /\ UNCHANGED <<blobSize, chunkSize, location, cont, res, outcome, loopExchanges>>
  /\ UNCHANGED <<handlerVars, retryVars>>

\* the caller calls buildContinueResumableUploadRequest with its status
BuildContinue ==
  /\ ~InFlight
  /\ \E sliced \in BOOLEAN :
       LET built == buildContinueResumableUploadRequest(
                      location, blobSize, chunkSize, status, sliced)
       IN  /\ outcome' = Call("build", built)
           /\ cont' = IF built.threw THEN NoCont ELSE built.value
  /\ res' = NoResponse
  /\ UNCHANGED <<blobSize, chunkSize, location, status, origin, loopExchanges>>
  /\ UNCHANGED <<handlerVars, retryVars>>

\* a bug the handler could have: the new offset is written into the status
\* passed in before the response is checked
ContinueHandlerInPlace ==
  /\ InFlight
  /\ \E r \in ChunkResponses :
       LET got == handler(cont, r, blobSize)
       IN  /\ res' = r
           /\ outcome' = Call("handler", got)
           /\ status' = IF ~got.threw THEN got.value
                         ELSE IF status = NoStatus THEN status
                         ELSE [status EXCEPT !.current = newCurrentOf(cont)]
           /\ origin' = IF got.threw THEN origin ELSE "chunk"
  /\ UNCHANGED <<blobSize, chunkSize, location, cont, loopExchanges>>
  /\ UNCHANGED <<handlerVars, retryVars>>

\* the response to the chunk request arrives and the handler closure runs;
\* on success the caller replaces its status by the handler's result
ContinueHandler ==
  /\ InFlight
  /\ \E r \in ChunkResponses :
       LET got == handler(cont, r, blobSize)
       IN  /\ res' = r
           /\ outcome' = Call("handler", got)
           /\ status' = IF got.threw THEN status ELSE got.value
           /\ origin' = IF got.threw THEN origin ELSE "chunk"
  /\ UNCHANGED <<blobSize, chunkSize, location, cont, loopExchanges>>
  /\ UNCHANGED <<handlerVars, retryVars>>

\* a status-query exchange: getResumableUploadStatusHandler runs on its response
GetResumableUploadStatus ==
  /\ ~InFlight
  /\ \E r \in QueryResponses :
       LET got == getResumableUploadStatusHandler(r, blobSize)
       IN  /\ res' = r
           /\ outcome' = Call("query", got)
           /\ status' = IF got.threw THEN status ELSE got.value
           /\ origin' = IF got.threw THEN origin ELSE "query"
  /\ UNCHANGED <<blobSize, chunkSize, location, cont, loopExchanges>>
  /\ UNCHANGED <<handlerVars, retryVars>>

----------------------------------------------------------------------------
(* The upload loop against a server that acknowledges every chunk          *)
(* (SpecLoop): build a chunk from the Progress, exchange it, replace the    *)
(* Progress by the handler's result, until it is finalized.                 *)

LoopBlobSizes  == BlobSizes \cup {b + 1 : b \in BlobSizes}
LoopChunkSizes == {k * Granule : k \in 1..(MaxChunkUnits + 1)}

Finalized == status # NoStatus /\ status.finalized

\* the server's answer to a chunk request: every byte acknowledged, "final"
\* exactly for a command that contains finalize
ServerAnswer(c) ==
  [status |-> 200, appCheckInvalid |-> FALSE,
   uploadStatus |-> IF c.uploadCommand \in {"finalize", "upload, finalize"}
                    THEN "final" ELSE "active",
   sizeReceived |-> AbsentHeader,
   body |-> "metadata-json"]

InitLoop ==
  /\ blobSize \in LoopBlobSizes
  /\ chunkSize \in LoopChunkSizes
  /\ location = UploadLocation
  /\ status = NoStatus
  /\ cont = NoCont
  /\ res = NoResponse
  /\ outcome = Call("none", NoOutcome)
  /\ origin = "none"
  /\ loopExchanges = 0

\* Uploading: the next chunk request is built from the current Progress
LoopBuild ==
  /\ ~InFlight
  /\ ~Finalized
  /\ ~outcome.result.threw
  /\ LET built == buildContinueResumableUploadRequest(
                     location, blobSize, chunkSize, status, TRUE)
     IN  /\ outcome' = Call("build", built)
         /\ cont' = IF built.threw THEN NoCont ELSE built.value
  /\ res' = NoResponse
  /\ UNCHANGED <<blobSize, chunkSize, location, status, origin, loopExchanges>>
  /\ UNCHANGED <<handlerVars, retryVars>>

\* the exchange completes: the handler runs on the server's answer and its
\* result replaces the Progress
LoopExchange ==
  /\ InFlight
  /\ LET r == ServerAnswer(cont)
         got == handler(cont, r, blobSize)
     IN  /\ res' = r
         /\ outcome' = Call("handler", got)
         /\ status' = IF got.threw THEN status ELSE got.value
         /\ origin' = IF got.threw THEN origin ELSE "chunk"
  /\ loopExchanges' = loopExchanges + 1
  /\ UNCHANGED <<blobSize, chunkSize, location, cont>>
  /\ UNCHANGED <<handlerVars, retryVars>>

----------------------------------------------------------------------------
(* Response handlers applied to a response (SpecHandlers) *)

\* a plain `new Error(message)`: it carries no StorageError code
PlainError(message) == [code |-> null, message |-> message]

getBytesResponseHandler(r, loc) ==
  IF r.status = 416 THEN Throw(PlainError("Requested Range Not Satisfiable"))
  ELSE IF r.status \notin {200, 206} THEN Throw(unknown)
  ELSE LET checked == objectErrorHandler(r, loc)
       IN  IF checked.threw THEN checked ELSE Return("blob")

HandlerHttpStatuses ==
  {200, 204, 206, 304, 400, 401, 402, 403, 404, 408, 416, 429, 500, 503}
HandlerResponses == [status : HandlerHttpStatuses, appCheckInvalid : BOOLEAN]
Locations == [bucket : {"bucket", "other-bucket"}, path : {"", "dir/object"}]

InitHandlers ==
  /\ hres = NoResponse
  /\ hloc = UploadLocation
  /\ hfun = "none"
  /\ hout = NoOutcome

SharedErrorHandler ==
  \E r \in HandlerResponses, loc \in Locations :
    /\ hres' = r /\ hloc' = loc /\ hfun' = "sharedErrorHandler"
    /\ hout' = sharedErrorHandler(r, loc)
    /\ UNCHANGED <<uploadVars, retryVars>>

ObjectErrorHandler ==
  \E r \in HandlerResponses, loc \in Locations :
    /\ hres' = r /\ hloc' = loc /\ hfun' = "objectErrorHandler"
    /\ hout' = objectErrorHandler(r, loc)
    /\ UNCHANGED <<uploadVars, retryVars>>

GetBytesResponseHandler ==
  \E r \in HandlerResponses, loc \in Locations :
    /\ hres' = r /\ hloc' = loc /\ hfun' = "getBytesResponseHandler"
    /\ hout' = getBytesResponseHandler(r, loc)
    /\ UNCHANGED <<uploadVars, retryVars>>

\* isString (type.ts): headers.get gives a string, or null for a missing header
isString(p) == p # null

\* a bug the session-start handler could have: the statuses of the other
\* handlers are allowed
createResumableUploadHandlerAllowingFinal(r) ==
  LET st == checkResumeHeader_(r, {"active", "final"})
      url == r.uploadUrl
  IN  IF st.threw THEN st
      ELSE IF ~isString(url) THEN Throw(unknown)
      ELSE Return(url)

createResumableUploadHandler(r) ==
  LET st == checkResumeHeader_(r, {"active"})
      url == r.uploadUrl
  IN  IF st.threw THEN st
      ELSE IF ~isString(url) THEN Throw(unknown)
      ELSE Return(url)

\* responses to a session-start request
StartResponses ==
  [status : {200, 403, 503}, appCheckInvalid : {FALSE},
   uploadStatus : UploadStatusHeaders \cup {""},
   uploadUrl : {null, "", "https://host/upload-session"}]

CreateResumableUploadHandler ==
  \E r \in StartResponses :
    /\ hres' = r /\ hfun' = "createResumableUploadHandler"
    /\ hout' = createResumableUploadHandler(r)
    /\ UNCHANGED hloc
    /\ UNCHANGED <<uploadVars, retryVars>>

----------------------------------------------------------------------------
(* makeRequest(input, retryLimit, init) with its retry loop (SpecRetry) *)

MaxRetryLimit == 3

\* isRetryStatusCode(status, additionalRetryCodes) (utils.ts)
isRetryStatusCode(st, additionalRetryCodes) ==
  \/ st >= 500 /\ st < 600
  \/ st \in {408, 429}
  \/ st \in additionalRetryCodes

FetchHttpStatuses == {200, 206, 403, 404, 408, 500, 503}
\* fetch() rejects on a network failure: no Response, the rejection propagates
NetworkFailure == 0
FetchOutcomes == FetchHttpStatuses \cup {NetworkFailure}

NoError == [none |-> TRUE]
NotCalled == [pc |-> "idle", retryLimit |-> 0, i |-> 0, lastError |-> NoError,
              fetched |-> <<>>, result |-> NoOutcome]

\* makeRequest(input, init) of request.ts, not called yet
NotCalledSingle == [pc |-> "idle", credentials |-> null, fetched |-> <<>>,
                    result |-> NoOutcome]

InitRetry == mr = NotCalled /\ sr = NotCalledSingle

\* a bug the loop could have: one attempt too many
LoopOrThrowOneMore(f) ==
  IF f.i <= f.retryLimit THEN [f EXCEPT !.pc = "fetching"]
  ELSE [f EXCEPT !.pc = "done",
                 !.result = IF f.lastError # NoError THEN Throw(f.lastError)
                            ELSE Throw(retryLimitExceeded)]

\* a bug the loop could have: one attempt too few
LoopOrThrowOneShort(f) ==
  IF f.i + 1 < f.retryLimit THEN [f EXCEPT !.pc = "fetching"]
  ELSE [f EXCEPT !.pc = "done",
                 !.result = IF f.lastError # NoError THEN Throw(f.lastError)
                            ELSE Throw(retryLimitExceeded)]

\* the loop test of line 58 with the code after the loop: either suspend in
\* the next fetch or leave the loop and throw
LoopOrThrow(f) ==
  IF f.i < f.retryLimit THEN [f EXCEPT !.pc = "fetching"]
  ELSE [f EXCEPT !.pc = "done",
                 !.result = IF f.lastError # NoError THEN Throw(f.lastError)
                            ELSE Throw(retryLimitExceeded)]

\* the call, up to its first await
MakeRequest ==
  /\ mr.pc = "idle"
  /\ \E limit \in 0..MaxRetryLimit :
       mr' = LoopOrThrow([mr EXCEPT !.retryLimit = limit, !.i = 0, !.lastError = NoError])
  /\ UNCHANGED <<uploadVars, handlerVars, sr>>

\* one pass of the loop body on the settled fetch, up to the next await
LoopBody(f, st) ==
  LET g == [f EXCEPT !.fetched = Append(f.fetched, st)]
  IN  IF st = NetworkFailure
      THEN [g EXCEPT !.pc = "done", !.result = Throw(PlainError("Failed to fetch"))]
      ELSE IF ~(st >= 200 /\ st <= 299)
      THEN IF ~isRetryStatusCode(st, {})
           THEN [g EXCEPT !.pc = "done", !.result = Throw(unknown)]
           ELSE LoopOrThrow([g EXCEPT !.lastError = unknown, !.i = f.i + 1])
      ELSE [g EXCEPT !.pc = "done", !.result = Return(st)]

FetchSettles ==
  /\ mr.pc = "fetching"
  /\ \E st \in FetchOutcomes : mr' = LoopBody(mr, st)
  /\ UNCHANGED <<uploadVars, handlerVars, sr>>

----------------------------------------------------------------------------
(* makeRequest(input, init) of request.ts: one attempt (SpecRetry) *)

\* the call, up to its await: credentials are forced to 'include' for an
\* emulator on a cloud workstation, then the fetch is issued
MakeRequestSingle ==
  /\ sr.pc = "idle"
  /\ \E isUsingEmulator \in BOOLEAN, isCloudWorkstation \in BOOLEAN :
       sr' = [sr EXCEPT !.pc = "fetching",
                        !.credentials = IF isUsingEmulator /\ isCloudWorkstation
                                        THEN "include" ELSE null]
  /\ UNCHANGED <<uploadVars, handlerVars, mr>>

\* a bug the single attempt could have: a retryable status fetches again
SingleBodyRetrying(f, st) ==
  LET g == [f EXCEPT !.fetched = Append(f.fetched, st)]
  IN  IF st = NetworkFailure
      THEN [g EXCEPT !.pc = "done", !.result = Throw(PlainError("Failed to fetch"))]
      ELSE IF ~(st >= 200 /\ st <= 299) /\ isRetryStatusCode(st, {}) /\ Len(f.fetched) = 0
      THEN g
      ELSE [g EXCEPT !.pc = "done", !.result = Return(st)]

\* lines 62-74 on the settled fetch
SingleBody(f, st) ==
  LET g == [f EXCEPT !.fetched = Append(f.fetched, st), !.pc = "done"]
  IN  IF st = NetworkFailure
      THEN [g EXCEPT !.result = Throw(PlainError("Failed to fetch"))]
      ELSE IF ~(st >= 200 /\ st <= 299)
      THEN IF ~isRetryStatusCode(st, {})
           THEN [g EXCEPT !.result = Return(st)]
           ELSE [g EXCEPT !.result = Throw(unknown)]
      ELSE [g EXCEPT !.result = Return(st)]

FetchSettlesSingle ==
  /\ sr.pc = "fetching"
  /\ \E st \in FetchOutcomes : sr' = SingleBody(sr, st)
  /\ UNCHANGED <<uploadVars, handlerVars, mr>>

----------------------------------------------------------------------------
(* Specifications *)

\* Variables of the parts a specification does not run keep these values
IdleUpload ==
  /\ blobSize = 0 /\ chunkSize = 0 /\ location = UploadLocation /\ status = NoStatus
  /\ cont = NoCont /\ res = NoResponse /\ outcome = Call("none", NoOutcome)
  /\ origin = "none" /\ loopExchanges = 0

Init == InitUpload /\ InitHandlers /\ InitRetry
Next ==
  \/ PassStoredStatus
  \/ BuildContinue
  \/ ContinueHandler
  \/ GetResumableUploadStatus
Spec == Init /\ [][Next]_vars

InitH == IdleUpload /\ InitHandlers /\ InitRetry
NextH ==
  \/ SharedErrorHandler
  \/ ObjectErrorHandler
  \/ GetBytesResponseHandler
  \/ CreateResumableUploadHandler
SpecHandlers == InitH /\ [][NextH]_vars

\* the loop runs on: the caller builds the next chunk whenever it can, and
\* the server answers every chunk
InitL == InitLoop /\ InitHandlers /\ InitRetry
NextL ==
  \/ LoopBuild
  \/ LoopExchange
SpecLoop == InitL /\ [][NextL]_vars /\ WF_vars(LoopBuild) /\ WF_vars(LoopExchange)

NextR ==
  \/ MakeRequest
  \/ FetchSettles
  \/ MakeRequestSingle
  \/ FetchSettlesSingle
SpecRetry == InitH /\ [][NextR]_vars

----------------------------------------------------------------------------
(* Claims *)

\* what the last call returned, when it returned
Returned(op) == outcome.op = op /\ ~outcome.result.threw
Value == outcome.result.value

\* the (current, total) a status stands for when handed to the builder
CurrentOf(st) == IF st = NoStatus THEN 0 ELSE st.current
TotalOf(st)   == IF st = NoStatus THEN blobSize ELSE st.total

C2_NextChunkStartsAtAcknowledged ==
  [][(Returned("handler") /\ outcome'.op = "build" /\ ~outcome'.result.threw) =>
       /\ status.current = cont.endByte
       /\ cont'.startByte = status.current
       /\ cont'.uploadOffset = status.current]_vars

\* the second chunk of an upload, built from the first handler's Progress
C2_Witness ==
  /\ Returned("build")
  /\ origin = "chunk"
  /\ status.current > 0
  /\ cont.startByte = status.current
  /\ cont.bytesToUpload > 0

\* C3 (as claimed): a Progress the chunk-upload handler returns for a
\* response with upload status "final" has current = total; "final" with
\* fewer bytes acknowledged makes the handler throw.
C3_FinalMeansComplete ==
  (outcome.op = "handler" /\ res.uploadStatus = "final" /\ res.status = 200
     /\ res.body = "metadata-json") =>
    IF cont.endByte = blobSize
    THEN Returned("handler") /\ Value.finalized /\ Value.current = Value.total
    ELSE outcome.result.threw

\* C4 (as claimed): every Progress a handler returns has metadata present iff
\* finalized.
C4_MetadataIffFinalized ==
  (Returned("handler") \/ Returned("query")) =>
    ((Value.metadata # null) <=> Value.finalized)

\* C4 (amended): metadata is present only in a finalized Progress; the
\* chunk-upload handler attaches it iff finalized; the status-query handler
\* never attaches it, also when it reports finalized.
C4_MetadataOnlyIfFinalized ==
  /\ (Returned("handler") \/ Returned("query")) =>
       (Value.metadata # null => Value.finalized)
  /\ Returned("handler") => ((Value.metadata # null) <=> Value.finalized)
  /\ Returned("handler") => ((res.uploadStatus = "final") <=> Value.finalized)
  /\ Returned("query") =>
       /\ Value.metadata = null
       /\ (res.uploadStatus = "final") <=> Value.finalized

\* a finalized Progress of each handler
C4_Witness ==
  /\ Returned("query")
  /\ Value.finalized
  /\ Value.metadata = null

\* C5 (as claimed): every Progress a handler returns has 0 <= current <= total.
C5_ProgressInRange ==
  (Returned("handler") \/ Returned("query")) =>
    (0 <= Value.current /\ Value.current <= Value.total)

\* the error the status table gives a non-2xx response; `objectScoped` says
\* whether the 404 row applies
TableError(r, loc, objectScoped) ==
  CASE r.status = 401 /\ r.appCheckInvalid  -> unauthorizedApp
    [] r.status = 401 /\ ~r.appCheckInvalid -> unauthenticated
    [] r.status = 402 -> quotaExceeded(loc.bucket)
    [] r.status = 403 -> unauthorized(loc.path)
    [] r.status = 404 /\ objectScoped -> objectNotFound(loc.path)
    [] OTHER -> unknown

\* C6: sharedErrorHandler and objectErrorHandler return a 2xx response
\* unchanged and throw, for any other status, the one error of the table:
\* 401 unauthorized-app or unauthenticated by the status text, 402
\* quota-exceeded(bucket), 403 unauthorized(path), 404 object-not-found(path)
\* through objectErrorHandler only, anything else unknown.
C6_StatusTable ==
  hfun \in {"sharedErrorHandler", "objectErrorHandler"} =>
    IF hres.status >= 200 /\ hres.status < 300
    THEN hout = Return(hres)
    ELSE hout = Throw(TableError(hres, hloc, hfun = "objectErrorHandler"))

\* a 404 through the object-scoped translator
C6_Witness ==
  /\ hfun = "objectErrorHandler"
  /\ hres.status = 404
  /\ hout = Throw(objectNotFound(hloc.path))
  /\ hloc.path # ""

\* C7 (as claimed): a chunk-upload response with status 404 makes the handler
\* throw object-not-found(path).
C7_ChunkNotFound ==
  (outcome.op = "handler" /\ res.status = 404) =>
    outcome.result = Throw(objectNotFound(location.path))

\* C7 (amended): the chunk-upload handler applies the shared translation, not
\* the object-scoped one: a non-2xx chunk response throws the table's error
\* without the 404 row, so 404 throws unknown.
C7_ChunkSharedTranslation ==
  (outcome.op = "handler" /\ ~Ok(res)) =>
    outcome.result = Throw(TableError(res, location, FALSE))

\* a chunk response with status 404
C7_Witness ==
  /\ outcome.op = "handler"
  /\ res.status = 404
  /\ outcome.result = Throw(unknown)

\* C8 (as claimed): getBytesResponseHandler throws the table's error with the
\* 404 row for a non-2xx response other than 416.
C8_DownloadStatusTable ==
  (hfun = "getBytesResponseHandler" /\ hres.status \in {401, 402, 403, 404}) =>
    hout = Throw(TableError(hres, hloc, TRUE))

\* C9 (as claimed): a download response with status 416 throws the domain
\* error range-not-satisfiable, a kind of the taxonomy other than unknown.
C9_RangeNotSatisfiable ==
  (hfun = "getBytesResponseHandler" /\ hres.status = 416) =>
    /\ hout.threw
    /\ hout.error.code = "range-not-satisfiable"
    /\ hout.error.code \in ErrorCodes \ {"unknown"}

\* the statuses fetched so far, all but the last `but`, were retryable errors
AllRetryable(f, but) ==
  \A j \in 1..(Len(f) - but) :
    f[j] # NetworkFailure /\ ~(f[j] >= 200 /\ f[j] <= 299) /\ isRetryStatusCode(f[j], {})

\* C10: while every attempt so far returned a retryable status and fewer than
\* retryLimit attempts were made, makeRequest fetches again; and when attempt
\* k <= retryLimit returns a 2xx response after k-1 retryable ones, the call
\* returns that response, having issued exactly k fetches.
C10_RetryThenSuccess ==
  LET f == mr.fetched
      k == Len(f)
  IN  /\ (mr.pc # "idle" /\ k < mr.retryLimit /\ AllRetryable(f, 0)) =>
           mr.pc = "fetching"
      /\ (k >= 1 /\ k <= mr.retryLimit /\ AllRetryable(f, 1)
            /\ f[k] >= 200 /\ f[k] <= 299) =>
           /\ mr.pc = "done"
           /\ mr.result = Return(f[k])

\* 503, 503, 200 with retryLimit = 3
C10_Witness ==
  /\ mr.retryLimit = 3
  /\ mr.fetched = <<503, 503, 200>>
  /\ mr.pc = "done"
  /\ mr.result = Return(200)

\* C11 (as claimed): when an attempt of the retrying makeRequest returns a
\* non-2xx status that is not retryable, the loop ends with no further fetch
\* and the call returns that response, for the handler to classify.
C11_NonRetryableSurfaced ==
  LET f == mr.fetched
      k == Len(f)
  IN  (k >= 1 /\ AllRetryable(f, 1) /\ f[k] # NetworkFailure
         /\ ~(f[k] >= 200 /\ f[k] <= 299) /\ ~isRetryStatusCode(f[k], {})) =>
        /\ mr.pc = "done"
        /\ mr.result = Return(f[k])

\* C12 (as claimed): the retrying makeRequest issues at most retryLimit
\* fetches, and when all of them were used without a 2xx response it throws
\* retry-limit-exceeded.
C12_ThrowsRetryLimitExceeded ==
  LET f == mr.fetched
  IN  /\ mr.pc # "idle" => Len(f) <= mr.retryLimit
      /\ (mr.pc # "idle" /\ Len(f) = mr.retryLimit /\ AllRetryable(f, 0)) =>
           /\ mr.pc = "done"
           /\ mr.result = Throw(retryLimitExceeded)

\* C12 (amended): the retrying makeRequest issues at most retryLimit fetches
\* and is done once retryLimit fetches have settled; when all of them
\* returned a retryable status it throws, never returns: the last transient
\* error, unknown, when at least one attempt was made, and
\* retry-limit-exceeded only when retryLimit allowed no attempt at all.
C12_ThrowsLastErrorWhenExhausted ==
  LET f == mr.fetched
  IN  /\ mr.pc # "idle" => Len(f) <= mr.retryLimit
      /\ (mr.pc # "idle" /\ Len(f) = mr.retryLimit) => mr.pc = "done"
      /\ (mr.pc # "idle" /\ Len(f) = mr.retryLimit /\ AllRetryable(f, 0)) =>
           mr.result = Throw(IF mr.retryLimit > 0 THEN unknown ELSE retryLimitExceeded)

\* three retryable answers with retryLimit = 3
C12_Witness ==
  /\ mr.retryLimit = 3
  /\ mr.fetched = <<503, 500, 408>>
  /\ mr.pc = "done"
  /\ mr.result = Throw(unknown)

\* C20: the single-attempt makeRequest issues exactly one fetch per call: a
\* 2xx response and a non-retryable non-2xx response are returned to the
\* caller, a retryable status throws unknown, and in each case the call is
\* over with that one fetch.
C20_SingleAttempt ==
  LET f == sr.fetched
  IN  /\ Len(f) <= 1
      /\ sr.pc = "fetching" => Len(f) = 0
      /\ Len(f) = 1 =>
           /\ sr.pc = "done"
           /\ f[1] # NetworkFailure =>
                sr.result = IF (f[1] >= 200 /\ f[1] <= 299) \/ ~isRetryStatusCode(f[1], {})
                            THEN Return(f[1])
                            ELSE Throw(unknown)

\* a 403 chunk response handed back to the caller after one fetch
C20_Witness ==
  /\ sr.pc = "done"
  /\ sr.fetched = <<403>>
  /\ sr.result = Return(403)

\* C13: the session-start handler returns the value of X-Goog-Upload-URL
\* when X-Goog-Upload-Status is "active" and the URL header is present; with
\* the URL header missing, the status header missing, or any other status,
\* "final" included, it throws unknown and returns no session URL.
C13_SessionStart ==
  hfun = "createResumableUploadHandler" =>
    IF hres.uploadStatus = "active" /\ hres.uploadUrl # null
    THEN hout = Return(hres.uploadUrl)
    ELSE hout = Throw(unknown)

\* an active session-start response without the upload-URL header
C13_Witness ==
  /\ hfun = "createResumableUploadHandler"
  /\ hres.status = 200
  /\ hres.uploadStatus = "active"
  /\ hres.uploadUrl = null
  /\ hout = Throw(unknown)

\* C14: every Progress a handler returns has total equal to the blob size,
\* so the caller's Progress keeps that total through the upload; and the
\* builder, given a status whose total differs from the blob size, throws
\* server-file-wrong-size and returns no request, and throws it in no other
\* case.
C14_TotalIsBlobSize ==
  /\ (Returned("handler") \/ Returned("query")) => Value.total = blobSize
  /\ origin \in {"chunk", "query"} => status.total = blobSize
  /\ outcome.op = "build" =>
       /\ (TotalOf(status) # blobSize) <=> (outcome.result = Throw(serverFileWrongSize))
       /\ TotalOf(status) # blobSize => cont = NoCont

\* a stored status of another blob handed to the builder
C14_Witness ==
  /\ outcome = Call("build", Throw(serverFileWrongSize))
  /\ status # NoStatus
  /\ status.total # blobSize
  /\ cont = NoCont

\* C15 (as claimed): buildContinueResumableUploadRequest called with a
\* status whose finalized flag is true throws and returns no request.
C15_FinalizedStatusRejected ==
  (outcome.op = "build" /\ status # NoStatus /\ status.finalized) =>
    (outcome.result.threw /\ cont = NoCont)

C19_ProgressNotModified ==
  [][/\ outcome'.op = "build" => status' = status
     /\ (InFlight /\ outcome'.op = "handler") =>
          /\ cont' = cont
          /\ outcome'.result.threw => status' = status
          /\ ~outcome'.result.threw => status' = outcome'.result.value]_vars

\* a chunk of a resumed upload rejected by the server: the previous Progress stays
C19_Witness ==
  /\ outcome.op = "handler"
  /\ outcome.result.threw
  /\ status # NoStatus
  /\ origin = "chunk"
  /\ status.current = cont.startByte
  /\ cont.bytesToUpload > 0

\* the number of chunk exchanges an upload of blobSize bytes takes
ExpectedExchanges ==
  IF blobSize = 0 THEN 1 ELSE (blobSize + chunkSize - 1) \div chunkSize

\* C17: with chunkSize > 0 and a server that acknowledges every chunk and
\* answers "final" exactly to a finalize command, the loop reaches a
\* finalized Progress; every "upload" exchange raises Progress.current; the
\* loop never takes more than ceil(total / chunkSize) exchanges (one for an
\* empty blob) and is finalized after exactly that many, by a chunk with a
\* finalize command that ends at the blob's size.
C17_UploadLoopFinishes ==
  /\ [](loopExchanges <= ExpectedExchanges)
  /\ [](Finalized =>
          /\ loopExchanges = ExpectedExchanges
          /\ cont.uploadCommand \in {"finalize", "upload, finalize"}
          /\ cont.endByte = blobSize
          /\ status.current = blobSize)
  /\ [][(InFlight /\ cont.uploadCommand = "upload" /\ outcome'.op = "handler") =>
          (~outcome'.result.threw /\ status'.current > CurrentOf(status))]_vars
  /\ <>Finalized

\* the two exchanges of a blob of 500000 bytes with chunkSize 262144
C17_Witness ==
  /\ Finalized
  /\ blobSize = 500000
  /\ chunkSize = 262144
  /\ loopExchanges = 2
  /\ cont.startByte = 262144
  /\ cont.endByte = 500000
  /\ cont.uploadCommand = "upload, finalize"
  /\ status.metadata # null

====
